---- MODULE Spec2Model ----
(***************************************************************************)
(* Model of examples/python_client.py: SteamMarketApiClient, a thin        *)
(* wrapper that turns method calls into HTTP GET requests and normalises   *)
(* transport failures into a uniform result mapping.                       *)
(*                                                                         *)
(* A Python str is modelled as a sequence of Unicode code points           *)
(* (integers); Str("...") converts a literal of the source.  A dict is a   *)
(* record / function from keys to values; None passed as `params` is the   *)
(* function with empty domain.                                             *)
(***************************************************************************)
EXTENDS Integers, Sequences, FiniteSets, TLC

VARIABLES base_url, api_base, sent, call, env, ret, exc

vars == <<base_url, api_base, sent, call, env, ret, exc>>

(***************************************************************************)
(* Bounds of the model.                                                    *)
(***************************************************************************)
\* number of client calls in one session (Spec)
MaxCalls == 2
\* longest item name drawn in SpecArgs
MaxNameLen == 3
\* how far past the clamp limit the count argument ranges in SpecArgs
CountSlack == 2

(***************************************************************************)
(* Text: code points of the printable ASCII characters.  AsciiLow holds    *)
(* the characters 32..95 and AsciiHigh the characters 97..126.             *)
(***************************************************************************)
AsciiLow == " !\"#$%&'()*+,-./0123456789:;<=>?@ABCDEFGHIJKLMNOPQRSTUVWXYZ[\\]^_"
AsciiHigh == "abcdefghijklmnopqrstuvwxyz{|}~"

\* ord(c) for a one-character literal c
Ord(c) ==
    IF \E i \in 1..Len(AsciiLow) : SubSeq(AsciiLow, i, i) = c
    THEN 31 + (CHOOSE i \in 1..Len(AsciiLow) : SubSeq(AsciiLow, i, i) = c)
    ELSE 96 + (CHOOSE i \in 1..Len(AsciiHigh) : SubSeq(AsciiHigh, i, i) = c)

\* a string literal of the source as a sequence of code points
Str(s) == [i \in 1..Len(s) |-> Ord(SubSeq(s, i, i))]

\* the characters the code and the codecs name
Slash == Ord("/")
Percent == Ord("%")
Minus == Ord("-")
Digit0 == Ord("0")
Digit9 == Ord("9")
UpperA == Ord("A")
UpperF == Ord("F")
LowerA == Ord("a")
LowerF == Ord("f")

(***************************************************************************)
(* urllib.parse.quote(string) with its default safe='/' : the string is    *)
(* encoded as UTF-8; every byte that is a letter, a digit, one of "_.-~"   *)
(* or '/' is kept, every other byte b becomes '%' followed by two          *)
(* upper-case hex digits.                                                  *)
(***************************************************************************)
HexDigits == Str("0123456789ABCDEF")

\* str.encode('utf-8') of one code point (code points below 0x800)
Utf8Char(cp) ==
    IF cp < 128 THEN <<cp>>
    ELSE <<192 + (cp \div 64), 128 + (cp % 64)>>

RECURSIVE Utf8Encode(_)
Utf8Encode(s) ==
    IF s = <<>> THEN <<>> ELSE Utf8Char(Head(s)) \o Utf8Encode(Tail(s))

AlwaysSafe ==
    {Str("ABCDEFGHIJKLMNOPQRSTUVWXYZ")[i] : i \in 1..26}
    \cup {Str("abcdefghijklmnopqrstuvwxyz")[i] : i \in 1..26}
    \cup {Str("0123456789")[i] : i \in 1..10}
    \cup {Str("_.-~")[i] : i \in 1..4}

\* the mutant of QuoteSafe that also lets '%' through
QuoteSafePercent == AlwaysSafe \cup {Slash, Percent}

\* the bytes quote() leaves alone: _ALWAYS_SAFE plus the default safe='/'
QuoteSafe == AlwaysSafe \cup {Slash}

QuoteByte(b) ==
    IF b \in QuoteSafe THEN <<b>>
    ELSE <<Percent, HexDigits[(b \div 16) + 1], HexDigits[(b % 16) + 1]>>

RECURSIVE QuoteBytes(_)
QuoteBytes(bs) ==
    IF bs = <<>> THEN <<>> ELSE QuoteByte(Head(bs)) \o QuoteBytes(Tail(bs))

quote(s) == QuoteBytes(Utf8Encode(s))

(***************************************************************************)
(* urllib.parse.unquote(string): the inverse the server applies to the     *)
(* path segment.  "%XY" with two hex digits (either case) is one byte, any *)
(* other character stands for itself; the bytes are decoded as UTF-8 with  *)
(* errors='replace' (U+FFFD for a malformed sequence).                     *)
(***************************************************************************)
IsHex(c) ==
    \/ c \in Digit0..Digit9
    \/ c \in UpperA..UpperF
    \/ c \in LowerA..LowerF

HexVal(c) ==
    IF c \in Digit0..Digit9 THEN c - Digit0
    ELSE IF c \in UpperA..UpperF THEN 10 + c - UpperA
    ELSE 10 + c - LowerA

RECURSIVE UnquoteToBytes(_)
UnquoteToBytes(s) ==
    IF s = <<>> THEN <<>>
    ELSE IF Head(s) = Percent /\ Len(s) >= 3 /\ IsHex(s[2]) /\ IsHex(s[3])
    THEN <<16 * HexVal(s[2]) + HexVal(s[3])>> \o UnquoteToBytes(SubSeq(s, 4, Len(s)))
    ELSE Utf8Char(Head(s)) \o UnquoteToBytes(Tail(s))

ReplacementChar == 65533

RECURSIVE Utf8Decode(_)
Utf8Decode(bs) ==
    IF bs = <<>> THEN <<>>
    ELSE IF Head(bs) < 128 THEN <<Head(bs)>> \o Utf8Decode(Tail(bs))
    ELSE IF /\ Head(bs) \in 194..223
            /\ Len(bs) >= 2
            /\ bs[2] \in 128..191
    THEN <<(Head(bs) - 192) * 64 + (bs[2] - 128)>> \o Utf8Decode(SubSeq(bs, 3, Len(bs)))
    ELSE <<ReplacementChar>> \o Utf8Decode(Tail(bs))

unquote(s) == Utf8Decode(UnquoteToBytes(s))

(***************************************************************************)
(* Helpers of the Python runtime used by the client.                       *)
(***************************************************************************)
\* Python's None: the value of `params` when no query parameter is passed,
\* and the value held by `ret` when a call did not return
None == <<>>

\* str.rstrip('/')
RECURSIVE RStripSlash(_)
RStripSlash(s) ==
    IF s # <<>> /\ s[Len(s)] = Slash
    THEN RStripSlash(SubSeq(s, 1, Len(s) - 1))
    ELSE s

\* the decimal digits of n >= 0
RECURSIVE Digits(_)
Digits(n) ==
    IF n < 10 THEN <<Digit0 + n>>
    ELSE Digits(n \div 10) \o <<Digit0 + (n % 10)>>

\* f'{app_id}' for an int
IntToStr(n) == IF n < 0 THEN <<Minus>> \o Digits(0 - n) ELSE Digits(n)

(***************************************************************************)
(* String literals of the source.                                          *)
(***************************************************************************)
ApiPrefix == Str("/api/v1")
RequestFailed == Str("Request failed: ")
PathTest == Str("/test")
PathStatus == Str("/steam/status")
PathFindApp == Str("/steam/find-app")
PathApp == Str("/steam/app/")
PathApps == Str("/steam/apps")
PathItem == Str("/steam/item/")
PathSearch == Str("/steam/search")
PathPopular == Str("/steam/popular")

(***************************************************************************)
(* Program constants.                                                      *)
(***************************************************************************)
\* the default of app_id (730 = CS:GO)
DefaultAppId == 730
\* the largest count search_items transmits
MaxCount == 50
\* the timeout handed to requests.get
RequestTimeout == 30

(***************************************************************************)
(* The environment of one call: what requests.get, raise_for_status and    *)
(* response.json() do.  `transport` is the exception requests.get raises   *)
(* ("None" when a response arrives), `status` the response's status code,  *)
(* `valid` whether the body is valid JSON and `body` its decoded value,    *)
(* `decodeErr` the class response.json() raises on an invalid body, and    *)
(* `msg` is str(e) of whatever exception is raised.  The class of the      *)
(* decode error depends on the installed requests: from 2.27 on it is      *)
(* requests.exceptions.JSONDecodeError, a RequestException; before, it is  *)
(* json.JSONDecodeError, a ValueError.  The source pins no version.        *)
(***************************************************************************)
Bodies ==
    { [success |-> TRUE, name |-> Str("Test")],
      [success |-> FALSE, error |-> Str("Item not found"), endpoint |-> Str("/other")],
      [items |-> <<>>] }

NoBody == [items |-> <<>>]

Environments ==
    { [transport |-> "ConnectionError", msg |-> Str(""), status |-> 0,
       valid |-> FALSE, body |-> NoBody, decodeErr |-> "None"],
      [transport |-> "Timeout", msg |-> Str("Read timed out."), status |-> 0,
       valid |-> FALSE, body |-> NoBody, decodeErr |-> "None"] }
    \cup
    { [transport |-> "None", msg |-> Str("Error for url"), status |-> st,
       valid |-> TRUE, body |-> NoBody, decodeErr |-> "None"] : st \in {404, 500} }
    \cup
    { [transport |-> "None", msg |-> Str(""), status |-> 200,
       valid |-> TRUE, body |-> b, decodeErr |-> "None"] : b \in Bodies }
    \cup
    { [transport |-> "None", msg |-> Str("Expecting value"), status |-> 200,
       valid |-> FALSE, body |-> NoBody, decodeErr |-> d] :
         d \in {"requests.exceptions.JSONDecodeError", "json.JSONDecodeError"} }

\* the environment before any call
NoEnv ==
    [transport |-> "None", msg |-> Str(""), status |-> 0,
     valid |-> FALSE, body |-> NoBody, decodeErr |-> "None"]

\* the classes `except requests.exceptions.RequestException` catches
IsRequestException(cls) ==
    cls \in {"ConnectionError", "Timeout", "HTTPError",
             "requests.exceptions.JSONDecodeError"}

\* the exception the try body raises ("None" when it returns):
\* requests.get, then raise_for_status (4xx and 5xx), then response.json()
TryBodyRaises(e) ==
    IF e.transport # "None" THEN e.transport
    ELSE IF e.status >= 400 /\ e.status < 600 THEN "HTTPError"
    ELSE IF ~e.valid THEN e.decodeErr
    ELSE "None"

\* the mutant of Failure that drops the "Request failed: " prefix
FailureNoPrefix(endpoint, msg) ==
    [success |-> FALSE, error |-> msg, endpoint |-> endpoint]

\* the mapping built in the except branch
Failure(endpoint, msg) ==
    [success |-> FALSE,
     error |-> RequestFailed \o msg,
     endpoint |-> endpoint]

\* the mutant of Decoded that stamps a success flag on the body
DecodedStamped(body) ==
    [k \in DOMAIN body \cup {"success"} |-> IF k = "success" THEN TRUE ELSE body[k]]

\* what `return response.json()` hands back for a decoded body
Decoded(body) == body

\* the outcome of _make_request(endpoint, params) in environment e:
\* the value returned, or the exception that leaves the method
MakeRequest(endpoint, e) ==
    LET raised == TryBodyRaises(e) IN
    IF raised = "None" THEN [ret |-> Decoded(e.body), exc |-> "None"]
    ELSE IF IsRequestException(raised)
         THEN [ret |-> Failure(endpoint, e.msg), exc |-> "None"]
         ELSE [ret |-> None, exc |-> raised]

\* the mutant of SendGet that tries once more after a failure
SendGetRetry(log, req, e) ==
    IF TryBodyRaises(e) = "None" THEN Append(log, req)
    ELSE Append(Append(log, req), req)

\* the network after the single requests.get of _make_request
SendGet(log, req, e) == Append(log, req)

(***************************************************************************)
(* The query parameters each operation builds.                             *)
(***************************************************************************)
\* the mutant of FindAppParams that names the parameter q
FindAppParamsQ(app_name) == [q |-> app_name]

FindAppParams(app_name) == [name |-> app_name]

\* the mutant of ItemPriceParams that always sends app_id
ItemPriceParamsAlways(app_id) == [app_id |-> app_id]

ItemPriceParams(app_id) ==
    IF app_id # DefaultAppId THEN [app_id |-> app_id] ELSE None

PopularParams(app_id) ==
    IF app_id # DefaultAppId THEN [app_id |-> app_id] ELSE None

\* the mutant of ClampCount that takes the larger value
ClampCountMax(count) == IF count > MaxCount THEN count ELSE MaxCount

\* min(count, 50)
ClampCount(count) == IF count < MaxCount THEN count ELSE MaxCount

\* the mutant of SearchParams that omits a default app_id
SearchParamsOmitDefault(query, app_id, count) ==
    IF app_id # DefaultAppId
    THEN [q |-> query, app_id |-> app_id, count |-> ClampCount(count)]
    ELSE [q |-> query, count |-> ClampCount(count)]

SearchParams(query, app_id, count) ==
    [q |-> query, app_id |-> app_id, count |-> ClampCount(count)]

(***************************************************************************)
(* Inputs.  A session (Spec) makes up to MaxCalls calls with a few sample  *)
(* arguments; a single call (SpecArgs) draws its arguments from every item *)
(* name over Alphabet up to MaxNameLen and a range of counts.              *)
(***************************************************************************)
BaseUrls == {Str("http://localhost:8000"), Str("http://localhost:8000/")}

SampleNames == {Str("AK-47 | Redline (Field-Tested)"), Str("a/b")}

\* 'A', ' ', '|', '/', '%', '4', '1' and the two-byte e-acute (U+00E9)
Alphabet == {UpperA, Ord(" "), Ord("|"), Slash, Percent, Ord("4"), Ord("1"), 233}

AllNames == UNION {[1..n -> Alphabet] : n \in 0..MaxNameLen}

Session ==
    [limit |-> MaxCalls,
     names |-> SampleNames,
     ids |-> {DefaultAppId, 440},
     counts |-> {10, MaxCount + 1}]

Single ==
    [limit |-> 1,
     names |-> AllNames,
     ids |-> {DefaultAppId, DefaultAppId - 1, 440, 0, 0 - 1},
     counts |-> (0 - 1)..(MaxCount + CountSlack)]

(***************************************************************************)
(* The client.                                                             *)
(***************************************************************************)
\* __init__(base_url)
Init ==
    /\ base_url \in BaseUrls
    /\ api_base = RStripSlash(base_url) \o ApiPrefix
    /\ sent = <<>>
    /\ call = [op |-> "none"]
    /\ env = NoEnv
    /\ ret = None
    /\ exc = "None"

\* one call c of the client that reaches _make_request(endpoint, params)
Invoke(c, endpoint, params, e) ==
    /\ sent' = SendGet(sent,
                       [endpoint |-> endpoint,
                        url |-> api_base \o endpoint,
                        params |-> params,
                        timeout |-> RequestTimeout],
                       e)
    /\ call' = c
    /\ env' = e
    /\ ret' = MakeRequest(endpoint, e).ret
    /\ exc' = MakeRequest(endpoint, e).exc
    /\ UNCHANGED <<base_url, api_base>>

test_connection(in) ==
    /\ Len(sent) < in.limit
    /\ \E e \in Environments :
        Invoke([op |-> "test_connection"], PathTest, None, e)

get_status(in) ==
    /\ Len(sent) < in.limit
    /\ \E e \in Environments :
        Invoke([op |-> "get_status"], PathStatus, None, e)

find_app_by_name(in) ==
    /\ Len(sent) < in.limit
    /\ \E app_name \in in.names, e \in Environments :
        Invoke([op |-> "find_app_by_name", app_name |-> app_name],
               PathFindApp, FindAppParams(app_name), e)

get_app_details(in) ==
    /\ Len(sent) < in.limit
    /\ \E app_id \in in.ids, e \in Environments :
        Invoke([op |-> "get_app_details", app_id |-> app_id],
               PathApp \o IntToStr(app_id), None, e)

get_supported_apps(in) ==
    /\ Len(sent) < in.limit
    /\ \E e \in Environments :
        Invoke([op |-> "get_supported_apps"], PathApps, None, e)

get_item_price(in) ==
    /\ Len(sent) < in.limit
    /\ \E item_name \in in.names, app_id \in in.ids, e \in Environments :
        LET encoded_name == quote(item_name)
            endpoint == PathItem \o encoded_name
            params == ItemPriceParams(app_id)
        IN Invoke([op |-> "get_item_price", item_name |-> item_name, app_id |-> app_id],
                  endpoint, params, e)

search_items(in) ==
    /\ Len(sent) < in.limit
    /\ \E query \in SampleNames, app_id \in in.ids, count \in in.counts, e \in Environments :
        Invoke([op |-> "search_items", query |-> query, app_id |-> app_id, count |-> count],
               PathSearch, SearchParams(query, app_id, count), e)

get_popular_items(in) ==
    /\ Len(sent) < in.limit
    /\ \E app_id \in in.ids, e \in Environments :
        Invoke([op |-> "get_popular_items", app_id |-> app_id],
               PathPopular, PopularParams(app_id), e)

Next ==
    \/ test_connection(Session)
    \/ get_status(Session)
    \/ find_app_by_name(Session)
    \/ get_app_details(Session)
    \/ get_supported_apps(Session)
    \/ get_item_price(Session)
    \/ search_items(Session)
    \/ get_popular_items(Session)

Spec == Init /\ [][Next]_vars

NextArgs ==
    \/ test_connection(Single)
    \/ get_status(Single)
    \/ find_app_by_name(Single)
    \/ get_app_details(Single)
    \/ get_supported_apps(Single)
    \/ get_item_price(Single)
    \/ search_items(Single)
    \/ get_popular_items(Single)

SpecArgs == Init /\ [][NextArgs]_vars

(***************************************************************************)
(* Vocabulary of the properties.                                           *)
(***************************************************************************)
\* a client operation has been called
Called == call.op # "none"

\* the arguments of the most recent requests.get
LastReq == sent[Len(sent)]

\* the call ended in a connection error, a timeout or a 4xx/5xx status
TransportFailed ==
    \/ env.transport \in {"ConnectionError", "Timeout"}
    \/ env.transport = "None" /\ env.status \in 400..599

\* the call received a 2xx response
Got2xx == env.transport = "None" /\ env.status \in 200..299

\* v has the Failure shape for the endpoint of the last request
IsFailureFor(v, endpoint) ==
    /\ DOMAIN v = {"success", "error", "endpoint"}
    /\ v.success = FALSE
    /\ Len(v.error) > 0
    /\ v.endpoint = endpoint

\* the paths of the documentation's endpoint table, and the API root's prefix
DocTest == Str("/test")
DocStatus == Str("/steam/status")
DocFindApp == Str("/steam/find-app")
DocApp == Str("/steam/app/")
DocApps == Str("/steam/apps")
DocItem == Str("/steam/item/")
DocSearch == Str("/steam/search")
DocPopular == Str("/steam/popular")
DocApiRoot == Str("/api/v1")

\* the endpoint table of the documentation
DocPath(c) ==
    CASE c.op = "test_connection" -> DocTest
      [] c.op = "get_status" -> DocStatus
      [] c.op = "find_app_by_name" -> DocFindApp
      [] c.op = "get_app_details" -> DocApp \o IntToStr(c.app_id)
      [] c.op = "get_supported_apps" -> DocApps
      [] c.op = "get_item_price" -> DocItem \o quote(c.item_name)
      [] c.op = "search_items" -> DocSearch
      [] c.op = "get_popular_items" -> DocPopular

\* the text a get_item_price request carries after "/steam/item/"
ItemSegment ==
    SubSeq(LastReq.endpoint, Len(PathItem) + 1, Len(LastReq.endpoint))

(***************************************************************************)
(* C1.  When the single GET of a convenience operation ends in a transport *)
(* failure (connection error, timeout, 4xx/5xx status), the operation      *)
(* returns normally with a mapping of exactly success = False, a non-empty *)
(* error string and endpoint = the path passed to _make_request, which is  *)
(* the path that was requested under the API root.                         *)
(***************************************************************************)
C1_TransportFailureReturnsFailure ==
    (Called /\ TransportFailed) =>
        /\ exc = "None"
        /\ IsFailureFor(ret, LastReq.endpoint)
        /\ LastReq.url = api_base \o ret.endpoint

C1_Witness ==
    /\ call.op = "get_item_price"
    /\ env.transport = "ConnectionError"
    /\ env.msg = <<>>
    /\ exc = "None"
    /\ ret.success = FALSE
    /\ ret.endpoint = PathItem \o Str("a/b")

(***************************************************************************)
(* C2.  When the GET returns a 2xx status whose body is not valid JSON,    *)
(* the operation returns the Failure shape and raises nothing.             *)
(***************************************************************************)
C2_BadJsonReturnsFailure ==
    (Called /\ Got2xx /\ ~env.valid) =>
        /\ exc = "None"
        /\ IsFailureFor(ret, LastReq.endpoint)

(***************************************************************************)
(* C3.  Every call issues exactly one GET, whatever its outcome: each step *)
(* of the client appends exactly one request to the network's log, the     *)
(* request of that call, and leaves the earlier requests where they were.  *)
(***************************************************************************)
C3_OneGetPerCall ==
    [][/\ Len(sent') = Len(sent) + 1
       /\ SubSeq(sent', 1, Len(sent)) = sent
       /\ sent'[Len(sent')].url = api_base \o DocPath(call')]_vars

C3_Witness ==
    /\ Len(sent) = 2
    /\ TransportFailed
    /\ sent[1].endpoint = PathStatus
    /\ sent[2].endpoint = PathPopular

(***************************************************************************)
(* C4.  Each operation requests its documented path under the API root     *)
(* with the documented query parameters: none for test_connection,         *)
(* get_status, get_app_details and get_supported_apps; {name} for          *)
(* find_app_by_name; {q, app_id, count} for search_items.                  *)
(***************************************************************************)
C4_DocumentedRequest ==
    Called =>
        /\ api_base = RStripSlash(base_url) \o DocApiRoot
        /\ LastReq.url = api_base \o DocPath(call)
        /\ call.op \in {"test_connection", "get_status", "get_app_details",
                        "get_supported_apps"}
              => DOMAIN LastReq.params = {}
        /\ call.op = "find_app_by_name"
              => /\ DOMAIN LastReq.params = {"name"}
                 /\ LastReq.params.name = call.app_name
        /\ call.op = "search_items"
              => /\ DOMAIN LastReq.params = {"q", "app_id", "count"}
                 /\ LastReq.params.q = call.query
        /\ call.op \in {"get_item_price", "get_popular_items"}
              => DOMAIN LastReq.params \subseteq {"app_id"}

C4_Witness ==
    /\ call.op = "find_app_by_name"
    /\ LastReq.url = Str("http://localhost:8000/api/v1/steam/find-app")
    /\ LastReq.params = [name |-> Str("a/b")]
    /\ base_url = Str("http://localhost:8000/")

(***************************************************************************)
(* C5.  get_item_price and get_popular_items send no query parameter at    *)
(* all when app_id is 730, and exactly app_id = the input otherwise.       *)
(***************************************************************************)
C5_AppIdOnlyWhenNotDefault ==
    call.op \in {"get_item_price", "get_popular_items"} =>
        IF call.app_id = 730
        THEN LastReq.params = None
        ELSE /\ DOMAIN LastReq.params = {"app_id"}
             /\ LastReq.params.app_id = call.app_id

C5_Witness ==
    /\ call.op = "get_item_price"
    /\ call.app_id = 730
    /\ LastReq.params = None

(***************************************************************************)
(* C6.  search_items transmits count = min(count, 50): 50 when count > 50, *)
(* the input when count <= 50, never more than 50, unchanged by a second   *)
(* clamp; and the request is sent whatever count is.                       *)
(***************************************************************************)
C6_CountClamped ==
    call.op = "search_items" =>
        LET c == LastReq.params.count IN
        /\ c = (IF call.count <= 50 THEN call.count ELSE 50)
        /\ c <= 50
        /\ call.count > 50 => c = 50
        /\ call.count <= 50 => c = call.count
        /\ ClampCount(c) = c
        /\ LastReq.url = api_base \o DocSearch

C6_Witness ==
    /\ call.op = "search_items"
    /\ call.count = 52
    /\ LastReq.params.count = 50

(***************************************************************************)
(* C7.  On a 2xx response with a valid JSON body the operation returns     *)
(* exactly the decoded body: no key added, removed or rewritten.           *)
(***************************************************************************)
C7_BodyReturnedVerbatim ==
    (Called /\ Got2xx /\ env.valid) =>
        /\ exc = "None"
        /\ ret = env.body

C7_Witness ==
    /\ call.op = "get_app_details"
    /\ Got2xx
    /\ env.valid
    /\ env.body = [items |-> <<>>]
    /\ ret = [items |-> <<>>]

(***************************************************************************)
(* C8.  For get_item_price the text after "/steam/item/" percent-decodes   *)
(* to the item name exactly.                                               *)
(***************************************************************************)
C8_QuoteRoundTrip ==
    call.op = "get_item_price" =>
        /\ Len(LastReq.endpoint) >= Len(PathItem)
        /\ SubSeq(LastReq.endpoint, 1, Len(PathItem)) = DocItem
        /\ unquote(ItemSegment) = call.item_name

C8_Witness ==
    /\ call.op = "get_item_price"
    /\ call.item_name = Str("%41")
    /\ ItemSegment = Str("%2541")

(***************************************************************************)
(* C9 as stated.  get_item_price, search_items and get_popular_items all   *)
(* omit app_id from the request when it equals 730.                        *)
(***************************************************************************)
C9_DefaultAppIdOmittedByAll ==
    (/\ call.op \in {"get_item_price", "search_items", "get_popular_items"}
     /\ call.app_id = 730)
        => "app_id" \notin DOMAIN LastReq.params

(***************************************************************************)
(* C9 as amended.  get_item_price and get_popular_items omit app_id from   *)
(* the request when it equals 730; search_items always sends app_id, equal *)
(* to its input, 730 included.                                             *)
(***************************************************************************)
C9_DefaultAppIdOmittedExceptSearch ==
    /\ (/\ call.op \in {"get_item_price", "get_popular_items"}
        /\ call.app_id = 730)
           => "app_id" \notin DOMAIN LastReq.params
    /\ call.op = "search_items"
           => /\ "app_id" \in DOMAIN LastReq.params
              /\ LastReq.params.app_id = call.app_id

C9_Witness ==
    /\ call.op = "search_items"
    /\ call.app_id = 730
    /\ LastReq.params.app_id = 730

(***************************************************************************)
(* C10.  For get_item_price the text after "/steam/item/" holds no '/':    *)
(* the encoded item name is one path segment.                              *)
(***************************************************************************)
C10_ItemNameIsOneSegment ==
    call.op = "get_item_price" =>
        \A i \in 1..Len(ItemSegment) : ItemSegment[i] # Slash

====
